---- MODULE Spec2Model ----
(***************************************************************************)
(* A model of the Simple Quote Bot (src/main.py): the quotes.json store,   *)
(* the owner_only guard and the five command handlers.  Text is modelled   *)
(* as a sequence of one-character strings, so that strip, partition,       *)
(* rpartition, lower and the substring test are computed as Python         *)
(* computes them.                                                          *)
(***************************************************************************)
EXTENDS Integers, Sequences, FiniteSets, TLC

VARIABLES OWNER_ID, file, pc, update, reply, quotes, quote_part, author

vars == <<OWNER_ID, file, pc, update, reply, quotes, quote_part, author>>

(***************************************************************************)
(* Bounds of the model.                                                    *)
(***************************************************************************)
\* Longest text after the command token that ParseSpec enumerates.
MaxLen == 7
\* Most records in the initial quotes.json.
MaxStore == 2
\* The handlers stop accepting /addquote once the store holds this many.
MaxQuotes == MaxStore + 1

(***************************************************************************)
(* Characters and strings.                                                 *)
(***************************************************************************)
SP == " "
NL == "\n"
DASH == "-"
DQ == "\""
SQ == "'"

\* The characters of the payloads ParseSpec enumerates.
Alphabet == {SP, DASH, DQ, SQ, "a"}

\* Code points, for str.lower() and for the ordering sorted() uses.
Ord(c) ==
    CASE c = NL -> 10
      [] c = SP -> 32
      [] c = DQ -> 34
      [] c = SQ -> 39
      [] c = DASH -> 45
      [] c = "/" -> 47
      [] c = "A" -> 65
      [] c = "B" -> 66
      [] c = "U" -> 85
      [] c = "a" -> 97
      [] c = "b" -> 98
      [] c = "c" -> 99
      [] c = "k" -> 107
      [] c = "n" -> 110
      [] c = "o" -> 111
      [] c = "w" -> 119
      [] c = "x" -> 120
      [] c = "y" -> 121
      [] c = "z" -> 122

\* str.lower() on one character.
LowerChar(c) ==
    CASE c = "A" -> "a"
      [] c = "B" -> "b"
      [] c = "U" -> "u"
      [] OTHER -> c

\* str.lower()
Lower(s) == [i \in 1..Len(s) |-> LowerChar(s[i])]

\* The separator add_quote splits on.
SEP == <<SP, DASH, SP>>

\* The places where sub occurs in s.
Occurrences(s, sub) ==
    {i \in 1..(Len(s) - Len(sub) + 1) : SubSeq(s, i, i + Len(sub) - 1) = sub}

\* sub in s
Contains(s, sub) == Len(sub) = 0 \/ Occurrences(s, sub) # {}

SetMin(S) == CHOOSE m \in S : \A n \in S : m <= n
SetMax(S) == CHOOSE m \in S : \A n \in S : m >= n

\* s.strip(chars): drops every leading and every trailing character of chars.
StripChars(s, chars) ==
    LET keep == {i \in 1..Len(s) : s[i] \notin chars}
    IN  IF keep = {} THEN <<>> ELSE SubSeq(s, SetMin(keep), SetMax(keep))

\* The whitespace of the model: the space and the line break.
Whitespace == {SP, NL}

\* s.strip()
Strip(s) == StripChars(s, Whitespace)

\* s.partition(sep): <<before, sep, after>> at the first occurrence.
Partition(s, sep) ==
    LET occ == Occurrences(s, sep)
    IN  IF occ = {} THEN <<s, <<>>, <<>>>>
        ELSE LET i == SetMin(occ)
             IN  <<SubSeq(s, 1, i - 1), sep, SubSeq(s, i + Len(sep), Len(s))>>

\* A mutant of Rpartition: splits at the first occurrence.
RpartitionFirst(s, sep) == Partition(s, sep)

\* s.rpartition(sep): <<before, sep, after>> at the last occurrence.
Rpartition(s, sep) ==
    LET occ == Occurrences(s, sep)
    IN  IF occ = {} THEN <<<<>>, <<>>, s>>
        ELSE LET i == SetMax(occ)
             IN  <<SubSeq(s, 1, i - 1), sep, SubSeq(s, i + Len(sep), Len(s))>>

\* " ".join(args)
RECURSIVE JoinSpace(_)
JoinSpace(args) ==
    IF Len(args) = 0 THEN <<>>
    ELSE IF Len(args) = 1 THEN args[1]
    ELSE args[1] \o <<SP>> \o JoinSpace(Tail(args))

\* s < t as Python compares two str: by code point, a proper prefix first.
RECURSIVE StrLess(_, _)
StrLess(s, t) ==
    IF Len(t) = 0 THEN FALSE
    ELSE IF Len(s) = 0 THEN TRUE
    ELSE IF s[1] = t[1] THEN StrLess(Tail(s), Tail(t))
    ELSE Ord(s[1]) < Ord(t[1])

\* sorted(S) for a set of str.
RECURSIVE Sorted(_)
Sorted(S) ==
    IF S = {} THEN <<>>
    ELSE LET m == CHOOSE a \in S : \A b \in S \ {a} : StrLess(a, b)
         IN  <<m>> \o Sorted(S \ {m})

(***************************************************************************)
(* The store: quotes.json.                                                 *)
(***************************************************************************)
\* What quotes.json can be when load_quotes opens it.
FileKinds == {"absent", "unreadable", "malformed", "object", "array"}

\* quotes.json holding the JSON array q.
ArrayFile(q) == [data |-> q, kind |-> "array"]

\* The exception open() raises on quotes.json, if any.
OpenError(f) ==
    CASE f.kind = "absent" -> "FileNotFoundError"
      [] f.kind = "unreadable" -> "PermissionError"
      [] OTHER -> "none"

\* The exception json.load raises on the opened file, if any.
JsonError(f) == IF f.kind = "malformed" THEN "JSONDecodeError" ELSE "none"

\* load_quotes(): the list it returns, or the exception it lets through.
LoadQuotes(f) ==
    LET exc == IF OpenError(f) # "none" THEN OpenError(f) ELSE JsonError(f)
    IN  IF exc = "none"
        THEN IF f.kind # "array"
             THEN [logged |-> FALSE, raised |-> FALSE, value |-> <<>>]
             ELSE [logged |-> FALSE, raised |-> FALSE, value |-> f.data]
        ELSE IF exc = "FileNotFoundError"
        THEN [logged |-> FALSE, raised |-> FALSE, value |-> <<>>]
        ELSE IF exc = "JSONDecodeError"
        THEN [logged |-> TRUE, raised |-> FALSE, value |-> <<>>]
        ELSE [logged |-> FALSE, raised |-> TRUE, value |-> <<>>]

\* A mutant of SaveQuotes: writes the new record after what the file holds now.
SaveQuotesMerge(f, q) ==
    IF f.kind = "array" /\ Len(q) > 0
    THEN ArrayFile(Append(f.data, q[Len(q)]))
    ELSE ArrayFile(q)

\* save_quotes(quotes): quotes.json after the full overwrite.
SaveQuotes(f, q) == ArrayFile(q)

(***************************************************************************)
(* Replies.  A reply is the fixed text and what is filled into it.         *)
(***************************************************************************)
\* The welcome and the usage text, each cut to its first line.
MsgWelcome == "Welcome to the Simple Quote Bot!"
MsgHelp == "/quote - get a random quote"
MsgNoQuotes == "No quotes available yet."
MsgQuote == "quote"
MsgNotFound == "No quotes found for author matching: "
MsgNoAuthors == "No authors found in the database."
MsgAuthors == "Authors available:"
MsgOwnerNotConfigured == "Owner not configured on the bot. Contact the admin."
\* The source puts a cross mark before this text and a check mark before the next.
MsgNotAuthorized == "You are not authorized to use this command."
MsgAdded == "Quote added successfully."
MsgInvalidFormat == "Invalid format. Use:\n/addquote \"quote text\" - author"
MsgError == "An error occurred. Try again later."

ReplyText(t) == [body |-> <<>>, text |-> t]
ReplyWith(t, b) == [body |-> b, text |-> t]
NoReply == ReplyText("")

(***************************************************************************)
(* Configuration, callers and inbound updates.                             *)
(***************************************************************************)
\* The telegram user ids of the model: the owner's and a stranger's.
OwnerUid == 1
OtherUid == 2

\* update.effective_user: absent, or a user with an id.
Users == {<<>>, <<OwnerUid>>, <<OtherUid>>}

\* OWNER_ID: None, or the configured id.
OwnerIds == {<<>>, <<OwnerUid>>}

\* The command token "/addquote" that starts update.message.text.
CMD == <<"/">>

\* The records quotes.json may hold at startup.
RecAb == [author |-> <<"A", "b">>, text |-> <<"x">>]
RecB == [author |-> <<"B">>, text |-> <<"a">>]
RecNoAuthor == [text |-> <<"z">>]
UNKNOWN == <<"U", "n", "k", "n", "o", "w", "n">>
RecUnknown == [author |-> UNKNOWN, text |-> <<"w">>]
InitialRecords == {RecAb, RecB, RecNoAuthor, RecUnknown}

\* The sequences over S of at most n elements.
SeqsUpTo(S, n) == UNION {[1..k -> S] : k \in 0..n}

\* quotes.json at startup.
InitialFiles ==
    {[data |-> <<>>, kind |-> k] : k \in FileKinds \ {"array"}}
        \cup {ArrayFile(q) : q \in SeqsUpTo(InitialRecords, MaxStore)}

\* The /addquote messages of Spec and RaceSpec.
TxtNoPayload == CMD
TxtNoSeparator == CMD \o <<SP, "a", "b">>
TxtOnlyQuoteMark == CMD \o <<SP, DQ, SP, DASH, SP, "b">>
TxtQuoted == CMD \o <<SP, SP, DQ, "a", DQ, SP, DASH, SP, "b", SP>>
TxtTwoSeparators == CMD \o <<SP, "a", SP, DASH, SP, "b", SP, DASH, SP, "c">>
TxtOnNextLine == CMD \o <<NL, DQ, "a", DQ, SP, DASH, SP, "b">>
AddTexts ==
    {TxtNoPayload, TxtNoSeparator, TxtOnlyQuoteMark, TxtQuoted, TxtTwoSeparators,
     TxtOnNextLine}
RaceTexts == {TxtNoSeparator, TxtQuoted, TxtTwoSeparators}

\* An /addquote message of ParseSpec: the command token alone (w = ""), or the
\* token, a space or a line break w, and the text s.
ParseText(w, s) == IF w = "" THEN CMD ELSE CMD \o <<w>> \o s

\* context.args of the /quote updates.
Queries == {<<>>, <<<<"a">>>>, <<<<"B">>>>, <<<<"n">>>>, <<<<"z">>>>, <<<<"a">>, <<"b">>>>}

Upd(c, u, t, a) == [args |-> a, text |-> t, cmd |-> c, user |-> u]
NoUpdate == Upd("", <<>>, <<>>, <<>>)

Updates ==
    {Upd(c, u, <<>>, <<>>) : c \in {"start", "help", "listauthors"}, u \in Users}
        \cup {Upd("quote", u, <<>>, a) : u \in Users, a \in Queries}
        \cup {Upd("addquote", u, t, <<>>) : u \in Users, t \in AddTexts}

\* The handlers that run at once: one dispatcher thread in Spec and ParseSpec,
\* two in RaceSpec.
Handlers == {1, 2}

(***************************************************************************)
(* The pure parts of the handlers.                                         *)
(***************************************************************************)
\* A mutant of OwnerOnly: the check that OWNER_ID is None is missing.
OwnerOnlyNoNoneCheck(user, owner) ==
    IF user # <<>> /\ owner # <<>> /\ user[1] = owner[1] THEN "call" ELSE "denied"

\* A mutant of OwnerOnly: an update without a user is let through.
OwnerOnlyAllowsNoUser(user, owner) ==
    IF owner = <<>> THEN "not_configured"
    ELSE IF user = <<>> \/ user[1] = owner[1] THEN "call"
    ELSE "denied"

\* owner_only: what the wrapper does with the update.
OwnerOnly(user, owner) ==
    IF owner = <<>> THEN "not_configured"
    ELSE IF user # <<>> /\ user[1] = owner[1] THEN "call"
    ELSE "denied"

\* A mutant of StripQuotes: drops one quote character at each end.
StripOneQuote(s) ==
    LET a == IF Len(s) > 0 /\ s[1] \in {DQ, SQ} THEN Tail(s) ELSE s
    IN  IF Len(a) > 0 /\ a[Len(a)] \in {DQ, SQ} THEN SubSeq(a, 1, Len(a) - 1) ELSE a

\* .strip('"').strip("'") of add_quote.
StripQuotes(s) == StripChars(StripChars(s, {DQ}), {SQ})

ParseFailed == [quote_part |-> <<>>, author |-> <<>>, ok |-> FALSE]

\* A mutant of ParseAddQuote: the check of the two parts is missing.
ParseAddQuoteNoPartsCheck(full) ==
    LET payload == Strip(Partition(full, <<SP>>)[3])
        parts == Rpartition(payload, SEP)
    IN  IF payload = <<>> THEN ParseFailed
        ELSE IF ~Contains(payload, SEP) THEN ParseFailed
        ELSE [quote_part |-> StripQuotes(Strip(parts[1])),
              author |-> Strip(parts[3]), ok |-> TRUE]

\* The try block of add_quote: the two parts, or the ValueError it raises.
ParseAddQuote(full) ==
    LET payload == Strip(Partition(full, <<SP>>)[3])
        parts == Rpartition(payload, SEP)
        qp == StripQuotes(Strip(parts[1]))
        au == Strip(parts[3])
    IN  IF payload = <<>> THEN ParseFailed
        ELSE IF ~Contains(payload, SEP) THEN ParseFailed
        ELSE IF qp = <<>> \/ au = <<>> THEN ParseFailed
        ELSE [quote_part |-> qp, author |-> au, ok |-> TRUE]

\* item.get(key, default)
Get(item, key, default) == IF key \in DOMAIN item THEN item[key] ELSE default

\* A mutant of FindByAuthor: searches the text of the record.
FindByText(author_query, qs) ==
    SelectSeq(qs, LAMBDA item :
        Contains(Lower(Get(item, "text", <<>>)), Lower(author_query)))

\* _find_by_author
FindByAuthor(author_query, qs) ==
    SelectSeq(qs, LAMBDA item :
        Contains(Lower(Get(item, "author", <<>>)), Lower(author_query)))

Range(q) == {q[i] : i \in 1..Len(q)}

\* The reply with one chosen record; chosen['author'] raises KeyError when the
\* record has no author, which error_handler answers.
QuoteReply(chosen) ==
    IF "text" \in DOMAIN chosen /\ "author" \in DOMAIN chosen
    THEN ReplyWith(MsgQuote, <<chosen.text, chosen.author>>)
    ELSE ReplyText(MsgError)

\* quote_cmd: the replies it can send (random.choice picks the record).
QuoteCmdReplies(f, args) ==
    LET ld == LoadQuotes(f)
        author_query == Strip(JoinSpace(args))
        matches == FindByAuthor(author_query, ld.value)
    IN  IF ld.raised THEN {ReplyText(MsgError)}
        ELSE IF ld.value = <<>> THEN {ReplyText(MsgNoQuotes)}
        ELSE IF args = <<>> THEN {QuoteReply(c) : c \in Range(ld.value)}
        ELSE IF matches = <<>> THEN {ReplyWith(MsgNotFound, author_query)}
        ELSE {QuoteReply(c) : c \in Range(matches)}

\* list_authors: the reply it sends.
ListAuthorsReply(f) ==
    LET ld == LoadQuotes(f)
        authors == Sorted({Get(q, "author", UNKNOWN) : q \in Range(ld.value)})
    IN  IF ld.raised THEN ReplyText(MsgError)
        ELSE IF authors = <<>> THEN ReplyText(MsgNoAuthors)
        ELSE ReplyWith(MsgAuthors, authors)

(***************************************************************************)
(* The state machine.  pc[h] is "idle" (no update in hand), "recv" (the    *)
(* dispatcher has handed update[h] to its handler) or "save" (add_quote    *)
(* between load_quotes and save_quotes).                                   *)
(***************************************************************************)
Idle == [h \in Handlers |-> "idle"]
NoLocals == [h \in Handlers |-> <<>>]

Init ==
    /\ OWNER_ID \in OwnerIds
    /\ file \in InitialFiles
    /\ pc = Idle
    /\ update = [h \in Handlers |-> NoUpdate]
    /\ reply = [h \in Handlers |-> NoReply]
    /\ quotes = NoLocals
    /\ quote_part = NoLocals
    /\ author = NoLocals

\* The handler returns with reply r (or error_handler has answered).
Return(h, r) ==
    /\ reply' = [reply EXCEPT ![h] = r]
    /\ pc' = [pc EXCEPT ![h] = "idle"]
    /\ quotes' = [quotes EXCEPT ![h] = <<>>]
    /\ quote_part' = [quote_part EXCEPT ![h] = <<>>]
    /\ author' = [author EXCEPT ![h] = <<>>]
    /\ UNCHANGED <<OWNER_ID, update>>

\* The dispatcher takes update u for handler h.
Dispatch(h, u) ==
    /\ pc[h] = "idle"
    /\ u.cmd = "addquote" => Len(LoadQuotes(file).value) < MaxQuotes
    /\ update' = [update EXCEPT ![h] = u]
    /\ reply' = [reply EXCEPT ![h] = NoReply]
    /\ pc' = [pc EXCEPT ![h] = "recv"]
    /\ UNCHANGED <<OWNER_ID, file, quotes, quote_part, author>>

Receive(h) == \E u \in Updates : Dispatch(h, u)

\* RaceSpec: only /addquote updates arrive.
ReceiveAddQuote(h) ==
    \E u \in Users, t \in RaceTexts : Dispatch(h, Upd("addquote", u, t, <<>>))

Start(h) ==
    /\ pc[h] = "recv" /\ update[h].cmd = "start"
    /\ Return(h, ReplyText(MsgWelcome))
    /\ UNCHANGED file

HelpCmd(h) ==
    /\ pc[h] = "recv" /\ update[h].cmd = "help"
    /\ Return(h, ReplyText(MsgHelp))
    /\ UNCHANGED file

QuoteCmd(h) ==
    /\ pc[h] = "recv" /\ update[h].cmd = "quote"
    /\ \E r \in QuoteCmdReplies(file, update[h].args) : Return(h, r)
    /\ UNCHANGED file

ListAuthors(h) ==
    /\ pc[h] = "recv" /\ update[h].cmd = "listauthors"
    /\ Return(h, ListAuthorsReply(file))
    /\ UNCHANGED file

\* add_quote under owner_only, up to and including load_quotes().
AddQuote(h) ==
    /\ pc[h] = "recv" /\ update[h].cmd = "addquote"
    /\ LET verdict == OwnerOnly(update[h].user, OWNER_ID)
           parsed == ParseAddQuote(update[h].text)
           ld == LoadQuotes(file)
       IN  IF verdict = "not_configured"
           THEN Return(h, ReplyText(MsgOwnerNotConfigured))
           ELSE IF verdict = "denied"
           THEN Return(h, ReplyText(MsgNotAuthorized))
           ELSE IF ~parsed.ok
           THEN Return(h, ReplyText(MsgInvalidFormat))
           ELSE IF ld.raised
           THEN Return(h, ReplyText(MsgError))
           ELSE /\ quotes' = [quotes EXCEPT ![h] = ld.value]
                /\ quote_part' = [quote_part EXCEPT ![h] = parsed.quote_part]
                /\ author' = [author EXCEPT ![h] = parsed.author]
                /\ pc' = [pc EXCEPT ![h] = "save"]
                /\ UNCHANGED <<OWNER_ID, update, reply>>
    /\ UNCHANGED file

\* add_quote: quotes.append, save_quotes(quotes) and the confirmation.
AddQuoteSave(h) ==
    /\ pc[h] = "save"
    /\ file' = SaveQuotes(file,
                   Append(quotes[h], [author |-> author[h], text |-> quote_part[h]]))
    /\ Return(h, ReplyText(MsgAdded))

\* One dispatcher thread: the handlers run one after the other.
Next ==
    \/ Receive(1)
    \/ Start(1)
    \/ HelpCmd(1)
    \/ QuoteCmd(1)
    \/ ListAuthors(1)
    \/ AddQuote(1)
    \/ AddQuoteSave(1)

Spec == Init /\ [][Next]_vars

\* Two add_quote handlers at once on the same quotes.json.
RaceNext ==
    \E h \in Handlers :
        \/ ReceiveAddQuote(h)
        \/ AddQuote(h)
        \/ AddQuoteSave(h)

RaceSpec == Init /\ [][RaceNext]_vars

\* The owner's /addquote, handed to add_quote, with the command token alone,
\* or with a space or a line break after the token and then any text of at
\* most MaxLen characters.
ParseInit ==
    /\ OWNER_ID = <<OwnerUid>>
    /\ file = ArrayFile(<<RecAb>>)
    /\ pc = [Idle EXCEPT ![1] = "recv"]
    /\ \E w \in Whitespace \cup {""}, s \in SeqsUpTo(Alphabet, MaxLen) :
           /\ w = "" => s = <<>>
           /\ update = [h \in Handlers |->
                          IF h = 1
                          THEN Upd("addquote", <<OwnerUid>>, ParseText(w, s), <<>>)
                          ELSE NoUpdate]
    /\ reply = [h \in Handlers |-> NoReply]
    /\ quotes = NoLocals
    /\ quote_part = NoLocals
    /\ author = NoLocals

ParseNext ==
    \/ AddQuote(1)
    \/ AddQuoteSave(1)

ParseSpec == ParseInit /\ [][ParseNext]_vars

(***************************************************************************)
(* What the properties speak of.                                           *)
(***************************************************************************)
\* The store a file stands for: its JSON array, and the empty store for
\* every other file.
StoreOf(f) == IF f.kind = "array" THEN f.data ELSE <<>>

\* update[h] is an /addquote that handler h has in hand.
Handling(h, c) == pc[h] = "recv" /\ update[h].cmd = c

\* Handler h has answered update[h], a command c.
Answered(h, c) == pc[h] = "idle" /\ update[h].cmd = c

\* The caller of u is the configured owner.
ByOwner(u) == OWNER_ID # <<>> /\ u.user = OWNER_ID

\* The payload of an /addquote message: what follows the command token, trimmed.
PayloadOf(full) == Strip(Tail(full))

\* The payload's last " - " and the two sides of it.
LastSep(payload) == SetMax(Occurrences(payload, SEP))
RawQuotePart(payload) == Strip(SubSeq(payload, 1, LastSep(payload) - 1))
RawAuthor(payload) == Strip(SubSeq(payload, LastSep(payload) + 3, Len(payload)))

\* s is nothing but an opening and a closing quotation mark, or one of them.
BareQuoteMarks(s) == Len(s) <= 2 /\ \A i \in 1..Len(s) : s[i] \in {DQ, SQ}

\* The payload breaks the parse contract: it is empty, has no " - ", or one of
\* its two parts is empty once trimmed (the quote text also once its quotation
\* marks are taken off).
ParseViolation(full) ==
    LET payload == PayloadOf(full)
    IN  \/ payload = <<>>
        \/ Occurrences(payload, SEP) = {}
        \/ /\ Occurrences(payload, SEP) # {}
           /\ \/ BareQuoteMarks(RawQuotePart(payload))
              \/ RawAuthor(payload) = <<>>

\* The payload is well formed: it has a " - ", an author after the last one
\* and, before it, a quote text with a character that is no quotation mark.
WellFormed(full) ==
    LET payload == PayloadOf(full)
    IN  /\ Occurrences(payload, SEP) # {}
        /\ RawAuthor(payload) # <<>>
        /\ \E i \in 1..Len(RawQuotePart(payload)) :
               RawQuotePart(payload)[i] \notin {DQ, SQ}

\* The author contains the query, whatever the case of the letters.
AuthorMatches(rec, query) ==
    /\ "author" \in DOMAIN rec
    /\ \E i \in 1..Len(rec.author) :
           /\ i + Len(query) - 1 <= Len(rec.author)
           /\ \A k \in 1..Len(query) :
                  LowerChar(rec.author[i + k - 1]) = LowerChar(query[k])

\* The author query of a /quote update: its arguments joined by one space.
QueryOf(u) == JoinSpace(u.args)

(***************************************************************************)
(* The claims.                                                             *)
(***************************************************************************)
\* C1: with an owner configured, an /addquote from anyone but the owner (or
\* from no user at all), whatever its payload, is answered with the
\* not-authorized text; add_quote does not run (the handler returns without
\* reaching its load or save) and quotes.json is left as it was.
C1_NonOwnerDenied ==
    [][\A h \in Handlers :
          (/\ Handling(h, "addquote")
           /\ OWNER_ID # <<>>
           /\ update[h].user # OWNER_ID
           /\ pc'[h] # "recv")
          => /\ reply'[h] = ReplyText(MsgNotAuthorized)
             /\ pc'[h] = "idle"
             /\ file' = file
             /\ quotes'[h] = <<>>]_vars

\* C1 witness: a stranger's well-formed /addquote was answered with the denial.
C1_Witness ==
    /\ Answered(1, "addquote")
    /\ OWNER_ID = <<OwnerUid>>
    /\ update[1].user = <<OtherUid>>
    /\ update[1].text = TxtQuoted
    /\ reply[1] = ReplyText(MsgNotAuthorized)

\* C4: with no owner configured, every /addquote from every caller is answered
\* with the owner-not-configured text, which is not the not-authorized text;
\* add_quote does not run, and no step of any command changes quotes.json.
C4_NoOwnerConfigured ==
    [][/\ MsgOwnerNotConfigured # MsgNotAuthorized
       /\ OWNER_ID = <<>> => file' = file
       /\ \A h \in Handlers :
            (/\ Handling(h, "addquote")
             /\ OWNER_ID = <<>>
             /\ pc'[h] # "recv")
            => /\ reply'[h] = ReplyText(MsgOwnerNotConfigured)
               /\ pc'[h] = "idle"
               /\ quotes'[h] = <<>>]_vars

\* C4 witness: the would-be owner's well-formed /addquote was answered with
\* the owner-not-configured text.
C4_Witness ==
    /\ Answered(1, "addquote")
    /\ OWNER_ID = <<>>
    /\ update[1].user = <<OwnerUid>>
    /\ update[1].text = TxtQuoted
    /\ reply[1] = ReplyText(MsgOwnerNotConfigured)

\* C3: an /addquote by the owner whose payload breaks the parse contract is
\* answered with the format hint, and add_quote returns without loading or
\* saving: quotes.json is left as it was.
C3_ParseViolationRejected ==
    [][\A h \in Handlers :
          (/\ Handling(h, "addquote")
           /\ ByOwner(update[h])
           /\ ParseViolation(update[h].text)
           /\ pc'[h] # "recv")
          => /\ reply'[h] = ReplyText(MsgInvalidFormat)
             /\ pc'[h] = "idle"
             /\ file' = file
             /\ quotes'[h] = <<>>]_vars

\* C3 witness: the owner's payload {" - a}, whose quote text is a lone
\* quotation mark, was answered with the format hint.
C3_Witness ==
    /\ Answered(1, "addquote")
    /\ ByOwner(update[1])
    /\ update[1].text = CMD \o <<SP, DQ, SP, DASH, SP, "a">>
    /\ reply[1] = ReplyText(MsgInvalidFormat)
    /\ file = ArrayFile(<<RecAb>>)

\* The quote part add_quote has split off the message of handler h, trimmed:
\* what stands before the last " - " of what follows the first space.
RawQuotePartOf(h) == RawQuotePart(Strip(Partition(update[h].text, <<SP>>)[3]))

\* C10 as stated: the stored text is the trimmed quote part without one
\* leading and one trailing quotation mark, so that of several marks on a side
\* all but the outermost stay.
C10_StripsOnlyOne ==
    \A h \in Handlers :
        pc[h] = "save" =>
            LET p == RawQuotePartOf(h)
                i == IF p[1] \in {DQ, SQ} THEN 2 ELSE 1
                j == IF p[Len(p)] \in {DQ, SQ} THEN Len(p) - 1 ELSE Len(p)
            IN  quote_part[h] = SubSeq(p, i, j)

\* p[i] is where the stored text starts: before it stand a run of {"} and then
\* a run of {'}, and neither run goes on at p[i].
LeadStripped(p, i) ==
    \E k \in 0..(i - 1) :
        /\ \A n \in 1..k : p[n] = DQ
        /\ \A n \in (k + 1)..(i - 1) : p[n] = SQ
        /\ p[i] # SQ
        /\ k = i - 1 => p[i] # DQ

\* p[j] is where the stored text ends: after it stand a run of {'} and then a
\* run of {"}, and neither run starts before p[j].
TrailStripped(p, j) ==
    \E k \in j..Len(p) :
        /\ \A n \in (j + 1)..k : p[n] = SQ
        /\ \A n \in (k + 1)..Len(p) : p[n] = DQ
        /\ p[j] # SQ
        /\ k = j => p[j] # DQ

\* C10 as amended: add_quote takes every leading and trailing {"} off the
\* trimmed quote part and then every leading and trailing {'}; of several equal
\* quotation marks on a side none stays in the stored text.
C10_StripsEveryQuoteMark ==
    \A h \in Handlers :
        pc[h] = "save" =>
            LET p == RawQuotePartOf(h)
            IN  \E i \in 1..Len(p), j \in 1..Len(p) :
                    /\ i <= j
                    /\ quote_part[h] = SubSeq(p, i, j)
                    /\ LeadStripped(p, i)
                    /\ TrailStripped(p, j)

\* C10 witness: the owner's payload {""a - a}, with two marks before the quote
\* text, is about to be stored with the text {a}.
C10_Witness ==
    /\ pc[1] = "save"
    /\ update[1].text = CMD \o <<SP, DQ, DQ, "a", SP, DASH, SP, "a">>
    /\ quote_part[1] = <<"a">>
    /\ author[1] = <<"a">>

\* Handler h has answered a /quote that named an author.
AnsweredAuthorQuery(h) == Answered(h, "quote") /\ update[h].args # <<>>

\* Some record of the store has an author that contains the query.
SomeAuthorMatches(store, query) ==
    \E i \in 1..Len(store) : AuthorMatches(store[i], query)

\* C5 as stated, over the files load_quotes can read: for every store, the
\* empty one too, a /quote naming an author that no record's author contains
\* is answered "No quotes found for author matching: " with the query.
C5_NotFoundForEveryStore ==
    \A h \in Handlers :
        (/\ AnsweredAuthorQuery(h)
         /\ file.kind # "unreadable"
         /\ ~SomeAuthorMatches(StoreOf(file), QueryOf(update[h])))
        => reply[h] = ReplyWith(MsgNotFound, QueryOf(update[h]))

\* C5 as amended: for every store that holds at least one record, a /quote
\* naming an author that no record's author contains is answered "No quotes
\* found for author matching: " with the query as it was typed.
C5_NotFoundForNonEmptyStore ==
    \A h \in Handlers :
        (/\ AnsweredAuthorQuery(h)
         /\ StoreOf(file) # <<>>
         /\ ~SomeAuthorMatches(StoreOf(file), QueryOf(update[h])))
        => reply[h] = ReplyWith(MsgNotFound, QueryOf(update[h]))

\* C5 witness: /quote z on a store whose authors are Ab and none was answered
\* with the not-found text and the query z.
C5_Witness ==
    /\ AnsweredAuthorQuery(1)
    /\ update[1].args = <<<<"z">>>>
    /\ file = ArrayFile(<<RecAb, RecNoAuthor>>)
    /\ reply[1] = ReplyWith(MsgNotFound, <<"z">>)

\* C6: when a /quote names an author that some record's author contains, the
\* reply shows a record of the store whose author contains the query whatever
\* the case of its letters; a record whose author does not is never shown.
C6_ReplyMatchesAuthor ==
    \A h \in Handlers :
        AnsweredAuthorQuery(h) =>
            /\ SomeAuthorMatches(StoreOf(file), QueryOf(update[h]))
                   => reply[h].text = MsgQuote
            /\ reply[h].text = MsgQuote
                   => \E i \in 1..Len(StoreOf(file)) :
                          /\ AuthorMatches(StoreOf(file)[i], QueryOf(update[h]))
                          /\ reply[h].body =
                                 <<StoreOf(file)[i].text, StoreOf(file)[i].author>>

\* C6 witness: /quote a on a store with the authors B and Ab was answered with
\* the record of Ab.
C6_Witness ==
    /\ AnsweredAuthorQuery(1)
    /\ update[1].args = <<<<"a">>>>
    /\ file = ArrayFile(<<RecB, RecAb>>)
    /\ reply[1] = ReplyWith(MsgQuote, <<RecAb.text, RecAb.author>>)

\* The record a well-formed /addquote message asks to append.
RecordOf(full) ==
    [author |-> RawAuthor(PayloadOf(full)),
     text |-> StripQuotes(RawQuotePart(PayloadOf(full)))]

\* C9: the save of add_quote writes the list the handler loaded plus its own
\* record over whatever quotes.json holds by then and confirms the addition,
\* so a record another add_quote saved in between is lost while both were
\* answered with the confirmation.
C9_LastWriterWins ==
    [][\A h \in Handlers :
          (pc[h] = "save" /\ pc'[h] # "save")
          => /\ file' = ArrayFile(Append(quotes[h], RecordOf(update[h].text)))
             /\ reply'[h] = ReplyText(MsgAdded)]_vars

\* C9 witness: both handlers were answered with the confirmation, the one for
\* {"a" - b} and the other for {a - b - c}, and quotes.json holds the second
\* record and not the first.
C9_Witness ==
    /\ Answered(1, "addquote") /\ Answered(2, "addquote")
    /\ update[1].text = TxtQuoted /\ update[2].text = TxtTwoSeparators
    /\ reply[1] = ReplyText(MsgAdded) /\ reply[2] = ReplyText(MsgAdded)
    /\ file.kind = "array"
    /\ RecordOf(TxtTwoSeparators) \in Range(file.data)
    /\ RecordOf(TxtQuoted) \notin Range(file.data)

\* C8 as stated: load_quotes never lets an exception through, whatever
\* quotes.json is, and returns the empty list unless the file holds a JSON array.
C8_LoadNeverFails ==
    /\ LoadQuotes(file).raised = FALSE
    /\ LoadQuotes(file).value = StoreOf(file)

\* The authors /listauthors is to show for a store.
AuthorsOf(store) ==
    {IF "author" \in DOMAIN store[i] THEN store[i].author ELSE UNKNOWN :
        i \in 1..Len(store)}

\* C7 as stated: /listauthors shows every author of the store once, in
\* ascending order, a record without an author counting as Unknown, and answers
\* "No authors found in the database." exactly when the store has no records.
C7_ListAuthorsSortedDistinct ==
    \A h \in Handlers :
        Answered(h, "listauthors") =>
            IF StoreOf(file) = <<>>
            THEN reply[h] = ReplyText(MsgNoAuthors)
            ELSE /\ reply[h].text = MsgAuthors
                 /\ Range(reply[h].body) = AuthorsOf(StoreOf(file))
                 /\ \A i \in 1..(Len(reply[h].body) - 1) :
                        StrLess(reply[h].body[i], reply[h].body[i + 1])

\* C7 on the files load_quotes can read.
ListAuthorsOnReadableFile ==
    file.kind # "unreadable" => C7_ListAuthorsSortedDistinct

\* C2 as stated: a well-formed /addquote by the owner, alone on quotes.json,
\* ends with the confirmation and with the store it found plus one record at
\* the end, made of the text before and the author after the last " - ".
C2_OwnerAppendsOneRecord ==
    [][\A h \in Handlers :
          (/\ pc[h] # "idle" /\ pc'[h] = "idle"
           /\ update[h].cmd = "addquote"
           /\ ByOwner(update[h])
           /\ WellFormed(update[h].text)
           /\ \A g \in Handlers \ {h} : pc[g] = "idle" /\ update[g] = NoUpdate)
          => /\ reply'[h] = ReplyText(MsgAdded)
             /\ file' = ArrayFile(Append(StoreOf(file), RecordOf(update[h].text)))]_vars

\* C2 on the files load_quotes can read, for the messages with a space after
\* the command token.
OwnerAppendsOnReadableFile ==
    [][file.kind # "unreadable" =>
          \A h \in Handlers :
              (/\ pc[h] # "idle" /\ pc'[h] = "idle"
               /\ update[h].cmd = "addquote"
               /\ ByOwner(update[h])
               /\ WellFormed(update[h].text)
               /\ update[h].text[2] = SP
               /\ \A g \in Handlers \ {h} : pc[g] = "idle" /\ update[g] = NoUpdate)
              => /\ reply'[h] = ReplyText(MsgAdded)
                 /\ file' = ArrayFile(Append(StoreOf(file), RecordOf(update[h].text)))]_vars

====
